---- MODULE Spec2Model ----
(***************************************************************************)
(* Model of dephell's EggInfoConverter (dephell/converters/egginfo.py).    *)
(*                                                                         *)
(* Text is a sequence of atoms.  An atom is either one of the punctuation  *)
(* characters the converter looks at (space, newline, ":", ",", "[", "]",  *)
(* ";") or an opaque run of other characters ("demo", "UNKNOWN", ">=1.10").*)
(* Concatenation of text is concatenation of sequences; "Name: demo" is    *)
(* <<"Name", ":", " ", "demo">>.                                           *)
(***************************************************************************)
EXTENDS Naturals, Sequences, FiniteSets, TLC

VARIABLES
    pc,     \* "idle" before a call, "done" after it
    op,     \* the operation called
    doc,    \* the text given to loads / _parse_info, or written by dumps
    proj,   \* the project given to dumps
    given,  \* the requirement list given to dumps
    where,  \* the path given to load
    ret     \* the outcome of the call

vars == <<pc, op, doc, proj, given, where, ret>>

(***************************************************************************)
(* Bounds of the explored inputs.                                          *)
(***************************************************************************)
MaxLines == 2
MaxReqs == 2
MaxPaths == 2

(***************************************************************************)
(* str helpers                                                             *)
(***************************************************************************)
SP == " "
NL == "\n"
Whitespace == {" ", "\t", "\n"}

\* str.lstrip(chars)
LStripSet(s, chars) ==
    LET keep == {i \in 1..Len(s) : s[i] \notin chars} IN
    IF keep = {} THEN <<>>
    ELSE SubSeq(s, CHOOSE i \in keep : \A j \in keep : i <= j, Len(s))

\* str.rstrip(chars)
RStripSet(s, chars) ==
    LET keep == {i \in 1..Len(s) : s[i] \notin chars} IN
    IF keep = {} THEN <<>>
    ELSE SubSeq(s, 1, CHOOSE i \in keep : \A j \in keep : j <= i)

\* str.strip()
Strip(s) == RStripSet(LStripSet(s, Whitespace), Whitespace)

\* the k-th smallest element of the set of positions P (0 for k = 0)
Nth(P, k) ==
    IF k = 0 THEN 0 ELSE CHOOSE i \in P : Cardinality({j \in P : j <= i}) = k

\* str.split(sep): empty parts are kept, ''.split(',') == ['']
SplitOn(s, sep) ==
    LET P == {i \in 1..Len(s) : s[i] = sep}
        n == Cardinality(P)
    IN  [k \in 1..(n + 1) |->
            SubSeq(s, Nth(P, k - 1) + 1,
                   IF k = n + 1 THEN Len(s) ELSE Nth(P, k) - 1)]

\* str.split(): runs of whitespace separate, no empty parts
SplitWs(s) ==
    LET starts == {i \in 1..Len(s) :
                      s[i] \notin Whitespace /\ (i = 1 \/ s[i - 1] \in Whitespace)}
        ends   == {i \in 1..Len(s) :
                      s[i] \notin Whitespace /\ (i = Len(s) \/ s[i + 1] \in Whitespace)}
    IN  [k \in 1..Cardinality(starts) |-> SubSeq(s, Nth(starts, k), Nth(ends, k))]

RECURSIVE Join(_, _)
\* sep.join(parts)
Join(parts, sep) ==
    IF parts = <<>> THEN <<>>
    ELSE IF Len(parts) = 1 THEN parts[1]
    ELSE parts[1] \o sep \o Join(Tail(parts), sep)

\* sub in s
Contains(s, sub) ==
    \E i \in 1..(Len(s) + 1) :
        /\ i + Len(sub) - 1 <= Len(s)
        /\ SubSeq(s, i, i + Len(sub) - 1) = sub

\* str.lower() on the field names that occur
LowerAtom(a) ==
    CASE a = "Name" -> "name"
      [] a = "NAME" -> "name"
      [] a = "Version" -> "version"
      [] a = "Summary" -> "summary"
      [] a = "License" -> "license"
      [] a = "Keywords" -> "keywords"
      [] a = "Classifier" -> "classifier"
      [] a = "Platform" -> "platform"
      [] a = "Home-Page" -> "home-page"
      [] a = "Download-URL" -> "download-url"
      [] a = "Project-URL" -> "project-url"
      [] a = "Author" -> "author"
      [] a = "Author-email" -> "author-email"
      [] a = "Author_email" -> "author_email"
      [] a = "Maintainer" -> "maintainer"
      [] a = "Maintainer-email" -> "maintainer-email"
      [] a = "Maintainer_email" -> "maintainer_email"
      [] a = "Requires" -> "requires"
      [] a = "Requires-Dist" -> "requires-dist"
      [] a = "Metadata-Version" -> "metadata-version"
      [] a = "Pet" -> "pet"
      [] OTHER -> a

Lower(s) == [i \in 1..Len(s) |-> LowerAtom(s[i])]

(***************************************************************************)
(* email.parser.Parser().parsestr, as far as the converter uses it: the    *)
(* header block is the leading run of "name:value" lines; a line that      *)
(* starts with a blank continues the previous header; the first line that  *)
(* is neither (an empty line included) starts the body.                    *)
(***************************************************************************)
IndexOf(l, a) ==
    IF \E i \in 1..Len(l) : l[i] = a
    THEN CHOOSE i \in 1..Len(l) : l[i] = a /\ \A j \in 1..(i - 1) : l[j] # a
    ELSE 0

IsHeaderLine(l) ==
    /\ IndexOf(l, ":") > 0
    /\ \A j \in 1..(IndexOf(l, ":") - 1) : l[j] \notin Whitespace

RECURSIVE HeadersAcc(_, _)
HeadersAcc(lines, acc) ==
    IF lines = <<>> THEN acc
    ELSE LET l == Head(lines) IN
         IF l = <<>> THEN acc
         ELSE IF Head(l) \in {" ", "\t"}
              THEN IF acc = <<>>
                   THEN HeadersAcc(Tail(lines), acc)
                   ELSE HeadersAcc(Tail(lines),
                            [acc EXCEPT ![Len(acc)].value = @ \o <<NL>> \o l])
         ELSE IF IsHeaderLine(l)
              THEN LET c == IndexOf(l, ":") IN
                   HeadersAcc(Tail(lines),
                       Append(acc, [name  |-> SubSeq(l, 1, c - 1),
                                    value |-> LStripSet(SubSeq(l, c + 1, Len(l)),
                                                        {" ", "\t"})]))
         ELSE acc

parsestr(content) == HeadersAcc(SplitOn(content, NL), <<>>)

\* Message.get_all(name): the values of the headers called name, case-insensitively
get_all(msg, name) ==
    LET hits == SelectSeq(msg, LAMBDA h : Lower(h.name) = Lower(<<name>>)) IN
    [i \in 1..Len(hits) |-> hits[i].value]

(***************************************************************************)
(* Model objects (dephell.models).  An optional value is a sequence of     *)
(* length 0 (None) or 1.                                                   *)
(***************************************************************************)
None == <<>>
Some(x) == <<x>>

Author(name, mail) == [name |-> name, mail |-> mail]

DefaultVersion == <<"0.0.0">>

\* RootDependency(...): the fields a converter passes, the rest at their defaults
RootDependency(id, raw_name, version, description, license, keywords, classifiers, platforms) ==
    [id           |-> id,
     raw_name     |-> raw_name,
     version      |-> version,
     description  |-> description,
     license      |-> license,
     keywords     |-> keywords,
     classifiers  |-> classifiers,
     platforms    |-> platforms,
     links        |-> <<>>,
     authors      |-> <<>>,
     dependencies |-> <<>>,
     readme       |-> None]

\* root.attach_dependencies(deps)
attach_dependencies(root, deps) ==
    [root EXCEPT !.dependencies = @ \o deps]

(***************************************************************************)
(* packaging.requirements.Requirement: name, optional [extras], optional   *)
(* version specifiers, optional "; marker".                                *)
(***************************************************************************)
VersionSpecs == {">=1.10", "==1.0"}
ValidMarkers == {<<"python_version", "<", "'3'">>}
Punctuation == {":", ",", "[", "]", ";", "<", "!!"}
Mails == {"jane@x.org", "bob@x.org"}

IsIdent(a) == a \notin (Punctuation \cup Whitespace \cup VersionSpecs \cup Mails
                        \cup {"python_version", "'3'"})

NoWs(s) == SelectSeq(s, LAMBDA a : a \notin Whitespace)

InvalidReq == [ok |-> FALSE, name |-> "", extras |-> <<>>,
               version |-> <<>>, markers |-> <<>>]

Requirement(name, extras, version, markers) ==
    [ok |-> TRUE, name |-> name, extras |-> extras,
     version |-> version, markers |-> markers]

\* the version specifiers (what follows the name and the extras) and the marker
parse_specifiers(name, extras, spec, marker, hasMarker) ==
    IF /\ \A i \in 1..Len(extras) : Len(extras[i]) = 1 /\ IsIdent(extras[i][1])
       /\ spec = <<>> \/ \A i \in 1..Len(SplitOn(spec, ",")) :
                             /\ Len(SplitOn(spec, ",")[i]) = 1
                             /\ SplitOn(spec, ",")[i][1] \in VersionSpecs
       /\ hasMarker => NoWs(marker) \in ValidMarkers
    THEN Requirement(name, [i \in 1..Len(extras) |-> extras[i][1]], spec, marker)
    ELSE InvalidReq

\* the optional [extras] after the name
parse_extras(name, rest, close, marker, hasMarker) ==
    IF rest # <<>> /\ Head(rest) = "["
    THEN IF close = 0 THEN InvalidReq
         ELSE parse_specifiers(name,
                  IF close = 2 THEN <<>> ELSE SplitOn(SubSeq(rest, 2, close - 1), ","),
                  SubSeq(rest, close + 1, Len(rest)), marker, hasMarker)
    ELSE parse_specifiers(name, <<>>, rest, marker, hasMarker)

\* the requirement before the marker, blanks removed
parse_named(before, marker, hasMarker) ==
    IF before = <<>> \/ ~IsIdent(Head(before)) THEN InvalidReq
    ELSE parse_extras(Head(before), Tail(before), IndexOf(Tail(before), "]"),
                      marker, hasMarker)

split_marker(req, semi) ==
    IF semi = 0 THEN parse_named(NoWs(req), <<>>, FALSE)
    ELSE parse_named(NoWs(SubSeq(req, 1, semi - 1)),
                     Strip(SubSeq(req, semi + 1, Len(req))), TRUE)

PackagingRequirement(req) == split_marker(req, IndexOf(req, ";"))

\* DependencyMaker.from_requirement(source, req): the dependencies one
\* requirement stands for
from_requirement(source, req) ==
    <<[name    |-> req.name,
       extras  |-> req.extras,
       version |-> req.version,
       markers |-> req.markers,
       source  |-> source.id]>>

\* the loop "for req in reqs: req = PackagingRequirement(req); deps.extend(...)":
\* the requirement strings handed to the grammar parser (those up to and
\* including the first malformed one) and the dependencies made of them
RECURSIVE MakeDeps(_, _, _, _)
MakeDeps(source, strs, seen, deps) ==
    IF strs = <<>> THEN [err |-> "", parsed |-> seen, deps |-> deps]
    ELSE IF ~PackagingRequirement(Head(strs)).ok
         THEN [err |-> "InvalidRequirement",
               parsed |-> Append(seen, Head(strs)), deps |-> deps]
         ELSE MakeDeps(source, Tail(strs), Append(seen, Head(strs)),
                       deps \o from_requirement(source, PackagingRequirement(Head(strs))))

(***************************************************************************)
(* EggInfoConverter helpers                                                *)
(***************************************************************************)
Sentinel == <<"UNKNOWN">>

\* a _get that forgets value.strip()
get_unstripped(msg, name) ==
    IF get_all(msg, name) = <<>> THEN <<>>
    ELSE IF get_all(msg, name)[1] = Sentinel THEN <<>>
    ELSE get_all(msg, name)[1]

\* the body of _get, once msg.get(name) has answered
get_value(values) ==
    IF values = <<>> THEN <<>>
    ELSE IF values[1] = <<>> THEN <<>>
    ELSE IF Strip(values[1]) = Sentinel THEN <<>>
    ELSE Strip(values[1])

\* _get(msg, name)
get(msg, name) == get_value(get_all(msg, name))

\* the tuple _get_list builds of msg.get_all(name)
stripped(values) == [i \in 1..Len(values) |-> Strip(values[i])]

\* _get_list(msg, name)
get_list(msg, name) ==
    stripped(SelectSeq(get_all(msg, name), LAMBDA v : Strip(v) # Sentinel))

\* a _format_req that puts the marker after ";" without the blank
format_req_tight(req) ==
    <<req.name>>
    \o (IF req.extras # <<>>
        THEN <<"[">> \o Join([i \in 1..Len(req.extras) |-> <<req.extras[i]>>], <<",">>)
                     \o <<"]">>
        ELSE <<>>)
    \o req.version
    \o (IF req.markers # <<>> THEN <<";">> \o req.markers ELSE <<>>)

\* _format_req(req)
format_req(req) ==
    LET l1 == <<req.name>>
        l2 == IF req.extras # <<>>
              THEN l1 \o <<"[">>
                      \o Join([i \in 1..Len(req.extras) |-> <<req.extras[i]>>], <<",">>)
                      \o <<"]">>
              ELSE l1
        l3 == IF req.version # <<>> THEN l2 \o req.version ELSE l2
    IN  IF req.markers # <<>> THEN l3 \o <<";", " ">> \o req.markers ELSE l3

(***************************************************************************)
(* The outcome of a call: err is "" or the exception raised, root the      *)
(* returned project (None when it raised), parsed the requirement strings  *)
(* handed to the grammar parser, log the files opened, searches made and   *)
(* parsers entered, in order, dirs the number of paths _load_dir was given.*)
(***************************************************************************)
Outcome(err, root, parsed, log) ==
    [err |-> err, root |-> root, parsed |-> parsed, log |-> log, dirs |-> None]

LinkKeys == {"home", "download", "project"}

LinkField(key) ==
    CASE key = "home" -> "Home-Page"
      [] key = "download" -> "Download-URL"
      [] key = "project" -> "Project-URL"

\* the "# links" loop of _parse_info
parse_links(info) ==
    [key \in {k \in LinkKeys : get(info, LinkField(k)) # <<>>}
        |-> get(info, LinkField(key))]

\* an "# authors" loop that takes the maintainer only after an author
parse_authors_coupled(info) ==
    IF get(info, "author") = <<>> THEN <<>>
    ELSE <<Author(get(info, "author"), get(info, "author_email"))>>
         \o (IF get(info, "maintainer") # <<>>
             THEN <<Author(get(info, "maintainer"), get(info, "maintainer_email"))>>
             ELSE <<>>)

\* the "# authors" loop of _parse_info
parse_authors(info) ==
    LET one(name, email) ==
            IF get(info, name) # <<>>
            THEN <<Author(get(info, name), get(info, email))>>
            ELSE <<>>
    IN  one("author", "author_email") \o one("maintainer", "maintainer_email")

\* the RootDependency(...) call of _parse_info, with its links and authors
info_root(info, id) ==
    [RootDependency(id,
         get(info, "Name"),
         IF get(info, "Version") # <<>> THEN get(info, "Version") ELSE DefaultVersion,
         get(info, "Summary"),
         get(info, "License"),
         SplitOn(get(info, "Keywords"), ","),
         get_list(info, "Classifier"),
         get_list(info, "Platform"))
     EXCEPT !.links = parse_links(info), !.authors = parse_authors(info)]

\* root.attach_dependencies(deps); return root -- unless a requirement was
\* malformed
attach(root, made, log) ==
    IF made.err # ""
    THEN Outcome(made.err, None, made.parsed, log)
    ELSE Outcome("", Some(attach_dependencies(root, made.deps)), made.parsed, log)

\* the "# dependencies" block of _parse_info
info_dependencies(info, root) ==
    attach(root,
           MakeDeps(root, get_list(info, "Requires") \o get_list(info, "Requires-Dist"),
                    <<>>, <<>>),
           <<"_parse_info">>)

parse_message(info, id) == info_dependencies(info, info_root(info, id))

\* _parse_info(content); id is the identity of the object it constructs
parse_info(content, id) == parse_message(parsestr(content), id)

\* BaseConverter._get_name(content=content)
get_name(content) == <<"root">>

\* a _parse_requires that ignores the project it is given
parse_requires_fresh(content, root, id) ==
    attach(RootDependency(id, get_name(content), DefaultVersion,
                          <<>>, <<>>, <<>>, <<>>, <<>>),
           MakeDeps(RootDependency(id, get_name(content), DefaultVersion,
                                   <<>>, <<>>, <<>>, <<>>, <<>>),
                    SplitWs(content), <<>>, <<>>),
           <<"_parse_requires", "_get_name">>)

\* the loop of _parse_requires
requires_dependencies(content, root, log) ==
    attach(root, MakeDeps(root, SplitWs(content), <<>>, <<>>), log)

\* _parse_requires(content, root=root); id is the identity of the object it
\* constructs when it is given none
parse_requires(content, root, id) ==
    IF root = None
    THEN requires_dependencies(content,
             RootDependency(id, get_name(content), DefaultVersion,
                            <<>>, <<>>, <<>>, <<>>, <<>>),
             <<"_parse_requires", "_get_name">>)
    ELSE requires_dependencies(content, root[1], <<"_parse_requires">>)

NameMarker == <<"Name", ":", " ">>

\* a loads that looks for the marker at the start of the text only
loads_prefix(content, id) ==
    IF Len(content) >= Len(NameMarker) /\ SubSeq(content, 1, Len(NameMarker)) = NameMarker
    THEN parse_info(content, id)
    ELSE parse_requires(content, None, id)

\* loads(content)
loads(content, id) ==
    IF Contains(content, NameMarker)
    THEN parse_info(content, id)
    ELSE parse_requires(content, None, id)

\* Readme.as_rst()
as_rst(readme) == readme

Field(name, value) == [name |-> name, value |-> value]

\* the "# links" loop of dumps
dump_links(project) ==
    LET one(key) == IF key \in DOMAIN project.links
                    THEN <<Field(LinkField(key), project.links[key])>>
                    ELSE <<>>
    IN  one("home") \o one("download") \o one("project")

\* the "# authors" block of dumps
dump_authors(project) ==
    LET mail(name, author) == IF author.mail # <<>>
                              THEN <<Field(name, author.mail)>>
                              ELSE <<>>
        first  == IF project.authors # <<>>
                  THEN <<Field("Author", project.authors[1].name)>>
                       \o mail("Author-email", project.authors[1])
                  ELSE <<>>
        second == IF Len(project.authors) > 1
                  THEN <<Field("Maintainer", project.authors[2].name)>>
                       \o mail("Maintainer-email", project.authors[2])
                  ELSE <<>>
    IN  first \o second

\* the (field, value) pairs dumps collects before joining them
dump_fields(rs, project) ==
    <<Field("Metadata-Version", <<"2.1">>),
      Field("Name", project.raw_name),
      Field("Version", project.version)>>
    \o (IF project.description # <<>>
        THEN <<Field("Summary", project.description)>> ELSE <<>>)
    \o dump_links(project)
    \o dump_authors(project)
    \o (IF project.license # <<>>
        THEN <<Field("License", project.license)>> ELSE <<>>)
    \o (IF project.keywords # <<>>
        THEN <<Field("Keywords", Join(project.keywords, <<",">>))>> ELSE <<>>)
    \o [i \in 1..Len(project.classifiers) |-> Field("Classifier", project.classifiers[i])]
    \o [i \in 1..Len(project.platforms) |-> Field("Platform", project.platforms[i])]
    \o [i \in 1..Len(rs) |-> Field("Requires", format_req(rs[i]))]

\* '\n'.join(map(': '.join, content))
join_fields(fields) ==
    Join([i \in 1..Len(fields) |-> <<fields[i].name>> \o <<":", " ">> \o fields[i].value],
         <<NL>>)

\* a dumps that puts the readme on the line after the last field
dumps_no_blank_line(rs, project) ==
    IF project.readme # None
    THEN join_fields(dump_fields(rs, project)) \o <<NL>> \o as_rst(project.readme[1])
    ELSE join_fields(dump_fields(rs, project))

\* the readme block of dumps
with_readme(content, readme) ==
    IF readme # None THEN content \o <<NL, NL>> \o as_rst(readme[1]) ELSE content

\* dumps(reqs, project)
dumps(rs, project) == with_readme(join_fields(dump_fields(rs, project)), project.readme)

(***************************************************************************)
(* The filesystem a load(path) call sees.  A metadata directory is         *)
(* [pkginfo, requires]: the content of its PKG-INFO and requires.txt, None *)
(* for a file that does not exist.                                         *)
(***************************************************************************)
\* open(...).read()
open(file) == IF file = None THEN [err |-> "FileNotFoundError", content |-> <<>>]
                             ELSE [err |-> "", content |-> file[1]]

Logs(log, out) == [out EXCEPT !.log = log \o @]

\* lines 111-116: requires.txt is read and parsed when root has no dependencies
merge_requires(info, req, id) ==
    IF info.root[1].dependencies # <<>> THEN info
    ELSE IF req.err # ""
    THEN Outcome(req.err, None, info.parsed, info.log \o <<"open:requires.txt">>)
    ELSE Logs(info.log \o <<"open:requires.txt">>,
              [parse_requires(req.content, info.root, id + 1)
                  EXCEPT !.parsed = info.parsed \o @])

\* lines 110-116: the content of PKG-INFO is parsed
parsed_pkginfo(path, info, id) ==
    IF info.err # "" THEN info ELSE merge_requires(info, open(path.requires), id)

\* lines 108-116: PKG-INFO is opened
opened_pkginfo(path, pkg, id) ==
    IF pkg.err # ""
    THEN Outcome(pkg.err, None, <<>>, <<"open:PKG-INFO">>)
    ELSE Logs(<<"open:PKG-INFO">>, parsed_pkginfo(path, parse_info(pkg.content, id), id))

\* _load_dir, once it has its single path
load_one(path, id) ==
    [opened_pkginfo(path, open(path.pkginfo), id) EXCEPT !.dirs = Some(1)]

\* a _load_dir that takes the first match instead of refusing several
load_dir_first(paths, id) ==
    IF paths = <<>>
    THEN [Outcome("FileNotFoundError", None, <<>>, <<>>) EXCEPT !.dirs = Some(0)]
    ELSE [load_one(paths[1], id) EXCEPT !.dirs = Some(Len(paths))]

\* _load_dir(*paths)
load_dir(paths, id) ==
    IF paths = <<>>
    THEN [Outcome("FileNotFoundError", None, <<>>, <<>>) EXCEPT !.dirs = Some(0)]
    ELSE IF Len(paths) > 1
    THEN [Outcome("FileExistsError", None, <<>>, <<>>) EXCEPT !.dirs = Some(Len(paths))]
    ELSE load_one(paths[1], id)

EggInfoSuffix == ".egg-info"

\* the archive extensions without '.gz'
ArchiveSuffixesNoGz == {".zip", ".tar"}

ArchiveSuffixes == {".zip", ".gz", ".tar"}

\* Path.name.endswith('.egg-info')
name_endswith(name, suffix) == name # <<>> /\ name[Len(name)] = suffix

\* Path.suffix: the last dot-component of the name, unless the name starts with it
path_suffix(name) ==
    IF Len(name) > 1 /\ name[Len(name)] \in {".zip", ".gz", ".tar", ".egg-info", ".txt"}
    THEN name[Len(name)] ELSE ""

\* root.readme = Readme.discover(path=archive); return root
discover_readme(out, readme) ==
    IF out.err # "" THEN out
    ELSE [out EXCEPT !.log = @ \o <<"Readme.discover">>,
                     !.root = Some([out.root[1] EXCEPT !.readme = readme])]

\* with path.open('r') as stream: return self.loads(stream.read())
load_file(file, id) ==
    IF file.err # "" THEN Outcome(file.err, None, <<>>, <<"open:file">>)
    ELSE Logs(<<"open:file", "loads">>, loads(file.content, id))

\* load(path).  path is [isdir, name, found, self, content, readme]: found
\* are the directories '**/*.egg-info' matches under it (or in the archive),
\* self the metadata files when the path is itself a directory, content the
\* text when it is a file, readme what Readme.discover finds in the archive.
load(path, id) ==
    IF path.isdir
    THEN IF name_endswith(path.name, EggInfoSuffix)
         THEN load_dir(<<path.self>>, id)
         ELSE Logs(<<"glob">>, load_dir(path.found, id))
    ELSE IF path_suffix(path.name) \in ArchiveSuffixes
    THEN Logs(<<"ArchivePath", "glob">>,
              discover_readme(load_dir(path.found, id), path.readme))
    ELSE load_file(open(path.content), id)

(***************************************************************************)
(* Inputs                                                                  *)
(***************************************************************************)
RECURSIVE SeqsUpTo(_, _)
\* the sequences of at most n elements of S
SeqsUpTo(S, n) ==
    IF n = 0 THEN {<<>>}
    ELSE LET shorter == SeqsUpTo(S, n - 1) IN
         shorter \cup {Append(q, x) : q \in shorter, x \in S}

Line(field, value) == <<field, ":", " ">> \o value

NameValues == {<<"demo">>, Sentinel, <<" ", "demo", " ">>}
VersionValues == {<<"1.0">>, Sentinel, <<" ">>}
KeywordValues == {Sentinel, <<"a", ",", ",", "UNKNOWN">>}
RequiresValues == {<<"six", ">=1.10">>, Sentinel, <<>>}

HeaderLines ==
    {Line("Name", v) : v \in NameValues}
    \cup {Line("Version", v) : v \in VersionValues}
    \cup {Line("Keywords", v) : v \in KeywordValues}
    \cup {Line("Requires", v) : v \in RequiresValues}
    \cup {Line("Requires-Dist", <<"requests">>)}
    \cup {Line("Summary", Sentinel), Line("License", <<"UNKNOWN", " ">>),
          Line("Home-Page", Sentinel)}
    \cup {Line("Classifier", <<"c1">>), Line("Classifier", Sentinel),
          Line("Classifier", <<>>)}
    \cup {Line("Author", <<"Jane">>), Line("Author", Sentinel),
          Line("Maintainer", <<"Bob">>),
          Line("Author-email", <<"jane@x.org">>),
          Line("Author_email", <<"jane@x.org">>)}
    \cup {<<>>, <<"junk">>, <<" ", "more">>,
          <<"NAME", ":", "demo">>, <<"Pet", "Name", ":", " ", "rex">>}

\* header-form documents: at most MaxLines lines
Docs == {Join(ls, <<NL>>) : ls \in SeqsUpTo(HeaderLines, MaxLines)}

ReqStrings == {<<"six">>, <<"six", ">=1.10">>, <<"requests", "[", "socks", "]">>,
               <<"[", "extra", "]">>}

\* requirement-list documents: at most MaxReqs tokens, one per line or
\* separated by blanks, with or without a final newline
ReqTexts ==
    {Join(ls, sep) \o end : ls \in SeqsUpTo(ReqStrings, MaxReqs),
                            sep \in {<<NL>>, <<SP>>}, end \in {<<>>, <<NL>>}}

Dep(name, extras, version, markers) ==
    [name |-> name, extras |-> extras, version |-> version,
     markers |-> markers, source |-> 0]

Requirements ==
    {Dep("six", <<>>, <<">=1.10">>, <<>>),
     Dep("requests", <<"socks", "tls">>, <<>>, <<>>),
     Dep("enum34", <<>>, <<"==1.0">>, <<"python_version", " ", "<", " ", "'3'">>)}

Jane == Author(<<"Jane">>, <<"jane@x.org">>)
Bob == Author(<<"Bob">>, <<"bob@x.org">>)
Anon == Author(<<"Ann">>, <<>>)

AuthorLists == {<<>>, <<Jane>>, <<Anon>>, <<Jane, Bob>>, <<Jane, Anon>>,
                <<Anon, Bob>>, <<Jane, Bob, Anon>>}

Bare == RootDependency(0, <<>>, DefaultVersion, <<>>, <<>>, <<>>, <<>>, <<>>)

\* the metadata other than identity, authors and readme
Metadata ==
    {Bare,
     [Bare EXCEPT !.description = <<"a", " ", "tool">>,
                  !.license = <<"MIT">>,
                  !.keywords = <<<<"a">>, <<"b">>>>,
                  !.classifiers = <<<<"c1">>, <<"c2">>>>,
                  !.platforms = <<<<"linux">>>>,
                  !.links = [home |-> <<"example.org">>, project |-> <<"example.org">>]],
     [Bare EXCEPT !.keywords = <<<<"a">>>>,
                  !.links = [download |-> <<"example.org">>],
                  !.dependencies = <<Dep("six", <<>>, <<>>, <<>>)>>]}

Readmes == {None,
            Some(<<" ", "About", NL, "Name", ":", " ", "other", NL,
                   "Requires", ":", " ", "six">>)}

Projects ==
    {[m EXCEPT !.raw_name = n, !.version = v, !.authors = a, !.readme = r] :
        m \in Metadata, n \in {<<"demo">>, Sentinel},
        v \in {<<"1.2.3">>, <<>>}, a \in AuthorLists, r \in Readmes}

PkgInfos == {None,
             Some(Join(<<Line("Name", <<"demo">>), Line("Version", <<"1.0">>)>>, <<NL>>)),
             Some(Join(<<Line("Name", <<"demo">>), Line("Requires", <<"six">>)>>, <<NL>>)),
             Some(Join(<<Line("Maintainer", <<"Bob">>), Line("Requires", Sentinel)>>, <<NL>>)),
             Some(Join(<<Line("Name", <<"demo">>), Line("Version", <<"1.0">>),
                         Line("Summary", <<"a", " ", "tool">>), Line("License", <<"MIT">>),
                         Line("Keywords", <<"a", ",", "b">>), Line("Classifier", <<"c1">>),
                         Line("Platform", <<"linux">>), Line("Home-Page", <<"example.org">>),
                         Line("Author", <<"Jane">>), Line("Maintainer", <<"Bob">>)>>, <<NL>>)),
             Some(Join(<<Line("Name", <<"demo">>), Line("Requires-Dist", <<"!!">>)>>, <<NL>>))}

RequiresFiles == {None, Some(<<>>), Some(<<"six", ">=1.10", NL, "requests", NL>>),
                  Some(<<"[", "extra", "]", NL, "six">>)}

MetadataDirs == [pkginfo : PkgInfos, requires : RequiresFiles]

PathNames == {<<"pkg", ".egg-info">>, <<"pkg">>, <<"pkg", ".zip">>, <<"pkg", ".tar">>,
              <<"pkg", ".tar", ".gz">>, <<"requires", ".txt">>, <<"PKG-INFO">>}

FileContents == {None, Some(<<"six", NL, "requests">>),
                 Some(Join(<<Line("Name", <<"demo">>), Line("Requires", <<"six">>)>>, <<NL>>))}

NoPath == [isdir |-> FALSE, name |-> <<>>, found |-> <<>>,
           self |-> [pkginfo |-> None, requires |-> None],
           content |-> None, readme |-> None]

Paths ==
    {[isdir |-> d, name |-> n, found |-> [i \in 1..k |-> m], self |-> m,
      content |-> c, readme |-> r] :
        d \in BOOLEAN, n \in PathNames, k \in 0..MaxPaths, m \in MetadataDirs,
        c \in FileContents, r \in {None, Some(<<"About">>)}}

(***************************************************************************)
(* The converter as a state machine: a caller makes one call at a time.    *)
(***************************************************************************)
NoOutcome == Outcome("", None, <<>>, <<>>)

Init ==
    /\ pc = "idle"
    /\ op = ""
    /\ doc = <<>>
    /\ proj = Bare
    /\ given = <<>>
    /\ where = NoPath
    /\ ret = NoOutcome

\* converter.loads(content)
CallLoads ==
    /\ pc = "idle"
    /\ \E content \in Docs \cup ReqTexts :
        /\ doc' = content
        /\ ret' = loads(content, 1)
    /\ op' = "loads"
    /\ pc' = "done"
    /\ UNCHANGED <<proj, given, where>>

\* EggInfoConverter._parse_info(content)
CallParseInfo ==
    /\ pc = "idle"
    /\ \E content \in Docs :
        /\ doc' = content
        /\ ret' = parse_info(content, 1)
    /\ op' = "_parse_info"
    /\ pc' = "done"
    /\ UNCHANGED <<proj, given, where>>

\* converter.dumps(reqs, project)
CallDumps ==
    /\ pc = "idle"
    /\ \E project \in Projects, rs \in SeqsUpTo(Requirements, MaxReqs) :
        /\ proj' = project
        /\ given' = rs
        /\ doc' = dumps(rs, project)
    /\ op' = "dumps"
    /\ pc' = "done"
    /\ UNCHANGED <<where, ret>>

\* converter.loads(converter.dumps(reqs, project))
CallLoadsDumped ==
    /\ pc = "done"
    /\ op = "dumps"
    /\ ret' = loads(doc, 1)
    /\ op' = "loads(dumps)"
    /\ UNCHANGED <<pc, doc, proj, given, where>>

\* converter.load(path)
CallLoad ==
    /\ pc = "idle"
    /\ \E path \in Paths :
        /\ where' = path
        /\ ret' = load(path, 1)
    /\ op' = "load"
    /\ pc' = "done"
    /\ UNCHANGED <<doc, proj, given>>

\* the caller is done with the result
Return ==
    /\ pc = "done"
    /\ pc' = "idle"
    /\ op' = ""
    /\ doc' = <<>>
    /\ proj' = Bare
    /\ given' = <<>>
    /\ where' = NoPath
    /\ ret' = NoOutcome

Next ==
    \/ CallLoads
    \/ CallParseInfo
    \/ CallDumps
    \/ CallLoadsDumped
    \/ CallLoad
    \/ Return

Spec == Init /\ [][Next]_vars

(***************************************************************************)
(* Properties                                                              *)
(***************************************************************************)
Returned(o) == pc = "done" /\ op = o

\* the call went through header-form parsing of doc
HeaderParsed ==
    \/ Returned("_parse_info")
    \/ Returned("loads") /\ Contains(doc, NameMarker)

\* the trimmed value of the first header called name, <<>> when there is none
FirstOf(values) == IF values = <<>> THEN <<>> ELSE Strip(values[1])

FirstValue(headers, name) == FirstOf(get_all(headers, name))

Opened(file) == \E i \in 1..Len(ret.log) : ret.log[i] = "open:" \o file

Logged(event) == \E i \in 1..Len(ret.log) : ret.log[i] = event

NoFileRead == \A i \in 1..Len(ret.log) :
                  ret.log[i] \notin {"open:PKG-INFO", "open:requires.txt", "open:file"}

\* the metadata directory a load call resolves, when it resolves one
TheDir == IF where.isdir /\ where.name[Len(where.name)] = ".egg-info"
          THEN where.self ELSE where.found[1]

\* the requirement values PKG-INFO declares (sentinel values dropped)
Declared(pkginfo) ==
    get_list(parsestr(pkginfo), "Requires") \o get_list(parsestr(pkginfo), "Requires-Dist")

RECURSIVE DepsOf(_, _)
\* the dependencies the factory makes of the requirement strings strs
DepsOf(source, strs) ==
    IF strs = <<>> THEN <<>>
    ELSE from_requirement(source, PackagingRequirement(Head(strs)))
         \o DepsOf(source, Tail(strs))

\* C1: _load_dir with zero candidates fails with the not-found error, with two
\* or more it fails with the ambiguous-source error and reads no file, with
\* one candidate whose PKG-INFO declares no requirement the returned project's
\* dependencies are those parsed from requires.txt, and with one candidate
\* whose PKG-INFO declares a requirement requires.txt is not read.
C1_LoadDirResolution ==
    (Returned("load") /\ ret.dirs # None) =>
        LET n == ret.dirs[1] IN
        /\ n = 0 => ret.err = "FileNotFoundError" /\ NoFileRead
        /\ n >= 2 => ret.err = "FileExistsError" /\ NoFileRead /\ ret.root = None
        /\ (n = 1 /\ ret.err = "" /\ Declared(TheDir.pkginfo[1]) = <<>>) =>
               /\ Opened("requires.txt")
               /\ ret.root[1].dependencies =
                      DepsOf(ret.root[1], SplitWs(TheDir.requires[1]))
        /\ (n = 1 /\ TheDir.pkginfo # None /\ Declared(TheDir.pkginfo[1]) # <<>>) =>
               ~Opened("requires.txt")

C1_Witness ==
    /\ Returned("load")
    /\ ret.dirs = Some(1)
    /\ ret.err = ""
    /\ Opened("requires.txt")
    /\ Len(ret.root[1].dependencies) = 2

\* C2: load picks one strategy: an '.egg-info' directory is the single
\* metadata directory, without a search; any other directory is searched and
\* all matches go to the resolution; a non-directory with extension .zip,
\* .gz or .tar is opened as an archive, searched, and readme discovery runs
\* after the resolution succeeded and is stored; anything else is read as a
\* file and passed whole to loads.  Readme discovery happens nowhere else.
C2_LoadDispatch ==
    Returned("load") =>
        LET last    == where.name[Len(where.name)]
            archive == Len(where.name) > 1 /\ last \in {".zip", ".gz", ".tar"}
        IN
        /\ (where.isdir /\ last = ".egg-info") =>
               /\ ret.dirs = Some(1)
               /\ ~Logged("glob") /\ ~Logged("ArchivePath")
               /\ ~Logged("open:file") /\ ~Logged("Readme.discover")
        /\ (where.isdir /\ last # ".egg-info") =>
               /\ ret.dirs = Some(Len(where.found))
               /\ ret.log[1] = "glob"
               /\ ~Logged("ArchivePath")
               /\ ~Logged("open:file") /\ ~Logged("Readme.discover")
        /\ (~where.isdir /\ archive) =>
               /\ ret.dirs = Some(Len(where.found))
               /\ SubSeq(ret.log, 1, 2) = <<"ArchivePath", "glob">>
               /\ ~Logged("open:file")
               /\ ret.err # "" => ~Logged("Readme.discover")
               /\ ret.err = "" => /\ ret.log[Len(ret.log)] = "Readme.discover"
                                  /\ ret.root[1].readme = where.readme
        /\ (~where.isdir /\ ~archive) =>
               /\ ret.dirs = None
               /\ ret.log[1] = "open:file"
               /\ ~Logged("glob") /\ ~Logged("ArchivePath")
               /\ ~Logged("open:PKG-INFO") /\ ~Logged("Readme.discover")
               /\ where.content # None =>
                      /\ ret.log[2] = "loads"
                      /\ ret.root = loads(where.content[1], 1).root
                      /\ ret.err = loads(where.content[1], 1).err

C2_Witness ==
    /\ Returned("load")
    /\ ~where.isdir
    /\ where.name = <<"pkg", ".tar", ".gz">>
    /\ ret.err = ""
    /\ Logged("Readme.discover")
    /\ ret.root[1].readme # None

\* C3 as claimed: header-form input with a non-empty Maintainer field and no
\* Author field yields a project with zero authors.
C3_MaintainerOnlyNoAuthors ==
    (HeaderParsed /\ ret.err = "") =>
        LET h == parsestr(doc) IN
        (FirstValue(h, "Maintainer") \notin {<<>>, Sentinel}
            /\ get_all(h, "Author") = <<>>) =>
            ret.root[1].authors = <<>>

\* C3 amended: header-form input with a non-empty Maintainer field and no
\* Author field yields exactly one author, named by the Maintainer field.
C3_MaintainerOnlyIsAuthor ==
    (HeaderParsed /\ ret.err = "") =>
        LET h == parsestr(doc) IN
        (FirstValue(h, "Maintainer") \notin {<<>>, Sentinel}
            /\ get_all(h, "Author") = <<>>) =>
            /\ Len(ret.root[1].authors) = 1
            /\ ret.root[1].authors[1].name = FirstValue(h, "Maintainer")

C3_Witness ==
    /\ Returned("loads")
    /\ Contains(doc, NameMarker)
    /\ ret.err = ""
    /\ FirstValue(parsestr(doc), "Maintainer") = <<"Bob">>
    /\ get_all(parsestr(doc), "Author") = <<>>
    /\ Len(ret.root[1].authors) = 1

\* C4: in header-form parsing a value that is 'UNKNOWN' or empty after
\* trimming is absent: no scalar field of the project is 'UNKNOWN' (Version
\* falls back to the default), no entry of keywords, classifiers or platforms
\* is empty or 'UNKNOWN', no requirement is made of such a value, and a
\* document without a Keywords value has no keywords.
C4_SentinelIsAbsent ==
    (HeaderParsed /\ ret.err = "") =>
        LET root == ret.root[1] IN
        /\ root.raw_name # Sentinel
        /\ root.description # Sentinel
        /\ root.license # Sentinel
        /\ root.version \notin {Sentinel, <<>>}
        /\ \A k \in DOMAIN root.links : root.links[k] \notin {Sentinel, <<>>}
        /\ \A i \in 1..Len(root.authors) : root.authors[i].name \notin {Sentinel, <<>>}
        /\ \A i \in 1..Len(root.keywords) : root.keywords[i] \notin {Sentinel, <<>>}
        /\ \A i \in 1..Len(root.classifiers) : root.classifiers[i] \notin {Sentinel, <<>>}
        /\ \A i \in 1..Len(root.platforms) : root.platforms[i] \notin {Sentinel, <<>>}
        /\ \A i \in 1..Len(ret.parsed) : ret.parsed[i] \notin {Sentinel, <<>>}
        /\ FirstValue(parsestr(doc), "Keywords") \in {<<>>, Sentinel} =>
               root.keywords = <<>>

\* C5 as claimed: header-form text with 'Name: X' and 'Version: Y' loads as a
\* project with raw_name X and version Y (X and Y read without surrounding
\* blanks); with Version omitted or empty the version is '0.0.0'.
C5_NameVersionAsWritten ==
    (Returned("loads") /\ Contains(doc, NameMarker) /\ ret.err = "") =>
        LET h == parsestr(doc)
            X == FirstValue(h, "Name")
            Y == FirstValue(h, "Version")
        IN  /\ (get_all(h, "Name") # <<>> /\ Y # <<>>) =>
                   ret.root[1].raw_name = X /\ ret.root[1].version = Y
            /\ Y = <<>> => ret.root[1].version = <<"0.0.0">>

\* C5 amended: when the first Name and Version fields of the header block
\* have values X and Y that, trimmed, are neither empty nor 'UNKNOWN', loads
\* yields raw_name X and version Y (trimmed); when Version is omitted, empty
\* or 'UNKNOWN' the version is '0.0.0'; a Name of 'UNKNOWN' gives an empty
\* raw_name.
C5_NameVersionUnlessSentinel ==
    (Returned("loads") /\ Contains(doc, NameMarker) /\ ret.err = "") =>
        LET h == parsestr(doc)
            X == FirstValue(h, "Name")
            Y == FirstValue(h, "Version")
        IN  /\ X # Sentinel => ret.root[1].raw_name = X
            /\ X = Sentinel => ret.root[1].raw_name = <<>>
            /\ Y \notin {<<>>, Sentinel} => ret.root[1].version = Y
            /\ Y \in {<<>>, Sentinel} => ret.root[1].version = <<"0.0.0">>

C5_Witness ==
    /\ Returned("loads")
    /\ ret.err = ""
    /\ get_all(parsestr(doc), "Name") = << <<"demo", " ">> >>
    /\ FirstValue(parsestr(doc), "Version") = <<"1.0">>
    /\ ret.root[1].raw_name = <<"demo">>
    /\ ret.root[1].version = <<"1.0">>

IsPrefix(a, b) == Len(a) <= Len(b) /\ SubSeq(b, 1, Len(a)) = a

\* C6: loads parses text that contains 'Name: ' anywhere as header-form
\* metadata and every other text as a requirement list, one requirement per
\* whitespace-delimited token; exactly one parser runs, also when it fails.
C6_LoadsSelectsParser ==
    (pc = "done" /\ op \in {"loads", "loads(dumps)"}) =>
        /\ Contains(doc, NameMarker) => ret.log = <<"_parse_info">>
        /\ ~Contains(doc, NameMarker) =>
               /\ ret.log = <<"_parse_requires", "_get_name">>
               /\ LET tokens == SplitWs(doc) IN
                  /\ IsPrefix(ret.parsed, tokens)
                  /\ ret.err = "" => ret.parsed = tokens
               /\ ret.err # "" =>
                      ~PackagingRequirement(ret.parsed[Len(ret.parsed)]).ok
        /\ ret.err # "" => ret.root = None

C6_Witness ==
    /\ Returned("loads")
    /\ Contains(doc, NameMarker)
    /\ ~IsPrefix(NameMarker, doc)
    /\ ret.err = "InvalidRequirement"
    /\ ret.log = <<"_parse_info">>

\* the lines of the dumped text up to the first empty line
RECURSIVE UpToBlank(_)
UpToBlank(lines) ==
    IF lines = <<>> \/ Head(lines) = <<>> THEN <<>>
    ELSE <<Head(lines)>> \o UpToBlank(Tail(lines))

HeaderBlock(content) == UpToBlank(SplitOn(content, NL))

RequiresLines(lines) == SelectSeq(lines, LAMBDA l : IsPrefix(<<"Requires", ":", " ">>, l))

Commas(names) ==
    IF Len(names) = 1 THEN <<names[1]>>
    ELSE IF Len(names) = 2 THEN <<names[1], ",", names[2]>>
    ELSE Join([i \in 1..Len(names) |-> <<names[i]>>], <<",">>)

\* C7: dumps writes 'Metadata-Version: 2.1', 'Name: <raw_name>' and
\* 'Version: <version>' as its first three lines and one 'Requires' line per
\* element of the list it is given, in order, whatever project.dependencies
\* holds; the value is the name, '[e1,e2]' for extras, the version with no
\* separator, and '; ' with the marker when there is one.
C7_DumpsLines ==
    Returned("dumps") =>
        LET lines    == HeaderBlock(doc)
            requires == RequiresLines(lines)
        IN  /\ Len(lines) >= 3
            /\ lines[1] = <<"Metadata-Version", ":", " ", "2.1">>
            /\ lines[2] = <<"Name", ":", " ">> \o proj.raw_name
            /\ lines[3] = <<"Version", ":", " ">> \o proj.version
            /\ Len(requires) = Len(given)
            /\ \A i \in 1..Len(given) :
                   requires[i] =
                       <<"Requires", ":", " ", given[i].name>>
                       \o (IF given[i].extras = <<>> THEN <<>>
                           ELSE <<"[">> \o Commas(given[i].extras) \o <<"]">>)
                       \o given[i].version
                       \o (IF given[i].markers = <<>> THEN <<>>
                           ELSE <<";", " ">> \o given[i].markers)

C7_Witness ==
    /\ Returned("dumps")
    /\ Len(given) = 2
    /\ given[1].markers # <<>>
    /\ given[2].extras # <<>>
    /\ proj.dependencies # <<>>
    /\ proj.readme # None

Plain(value) == value \notin {<<>>, Sentinel} /\ Strip(value) = value

\* C8: for a project whose raw_name and version are non-empty, not 'UNKNOWN'
\* and without surrounding whitespace, and any requirement list, the dumped
\* text has the lines 'Name: <raw_name>' and 'Version: <version>', loads
\* parses it as header-form metadata and recovers raw_name and version.
C8_IdentityRoundTrip ==
    (Returned("loads(dumps)") /\ Plain(proj.raw_name) /\ Plain(proj.version)) =>
        /\ LET lines == SplitOn(doc, NL) IN
           /\ \E i \in 1..Len(lines) : lines[i] = <<"Name", ":", " ">> \o proj.raw_name
           /\ \E i \in 1..Len(lines) : lines[i] = <<"Version", ":", " ">> \o proj.version
        /\ ret.log = <<"_parse_info">>
        /\ ret.err = ""
        /\ ret.root[1].raw_name = proj.raw_name
        /\ ret.root[1].version = proj.version

C8_Witness ==
    /\ Returned("loads(dumps)")
    /\ proj.raw_name = <<"demo">>
    /\ proj.version = <<"1.2.3">>
    /\ proj.readme # None
    /\ proj.authors = <<>>
    /\ given = <<>>
    /\ ret.err = ""
    /\ ret.root[1].raw_name = <<"demo">>

\* C9: when _load_dir merges requires.txt into the project parsed from
\* PKG-INFO, the returned project is the object parsed from PKG-INFO with
\* its raw_name, version, description, license, keywords, classifiers,
\* platforms, links and authors as parsed, and no name is inferred from
\* requires.txt.
C9_MergeKeepsMetadata ==
    (Returned("load") /\ ret.err = "" /\ Opened("requires.txt")) =>
        LET info == parse_info(TheDir.pkginfo[1], 1).root[1]
            root == ret.root[1]
        IN  /\ root.id = info.id
            /\ root.raw_name = info.raw_name
            /\ root.version = info.version
            /\ root.description = info.description
            /\ root.license = info.license
            /\ root.keywords = info.keywords
            /\ root.classifiers = info.classifiers
            /\ root.platforms = info.platforms
            /\ root.links = info.links
            /\ root.authors = info.authors
            /\ ~Logged("_get_name")
            /\ \A i \in 1..Len(root.dependencies) : root.dependencies[i].source = info.id

C9_Witness ==
    /\ Returned("load")
    /\ ret.err = ""
    /\ Opened("requires.txt")
    /\ Len(ret.root[1].dependencies) = 2
    /\ ret.root[1].raw_name = <<"demo">>
    /\ Len(ret.root[1].authors) = 2
    /\ ret.root[1].description # <<>>

FirstTwo(authors) == SubSeq(authors, 1, IF Len(authors) > 2 THEN 2 ELSE Len(authors))

\* C10: for a project whose first and, when present, second author have a
\* non-empty name and a non-empty mail, loads(dumps(deps, project)) yields
\* authors with the same names in the same positions and the same mails.
C10_AuthorsRoundTrip ==
    (/\ Returned("loads(dumps)")
     /\ proj.authors # <<>>
     /\ \A i \in 1..Len(FirstTwo(proj.authors)) :
            proj.authors[i].name # <<>> /\ proj.authors[i].mail # <<>>) =>
        /\ ret.err = ""
        /\ ret.root[1].authors = FirstTwo(proj.authors)

====
